---- MODULE Spec2Model ----
(***************************************************************************)
(* A model of the scan orchestration of aws_resource_inventory:            *)
(* AWSResourceInventory.run / scan_organization / _scan_account (main.py), *)
(* OIDCAuthenticator (aws_auth.py), Config.filter_accounts (config.py) and *)
(* BaseScanner.scan_account_region (scanners/base.py).                     *)
(*                                                                         *)
(* The main thread verifies the root identity, lists and filters the       *)
(* accounts, requests credentials account by account and submits one       *)
(* _scan_account task per account to a ThreadPoolExecutor, then merges the *)
(* tasks' results as they complete and hands the report to the writer.     *)
(* Pool threads run the tasks; AWS is the environment, whose answers       *)
(* (success, ClientError, other exception) are chosen nondeterministically.*)
(***************************************************************************)
EXTENDS Integers, Sequences, FiniteSets, Bags, TLC

(***************************************************************************)
(* Bounds of the model.                                                    *)
(***************************************************************************)
\* max_workers is drawn from 1..MaxWorkers
MaxWorkers == 2
\* at most MaxFaults scanner invocations fail in one run (see FaultBudget)
MaxFaults == 1
\* the clock advances at most MaxTicks times
MaxTicks == 1
\* a listing has at most MaxPages pages of at most MaxPageSize items
MaxPages == 2
MaxPageSize == 2
\* an organization lists at most MaxListed accounts
MaxListed == 2

(***************************************************************************)
(* Constants of the program.                                               *)
(***************************************************************************)
\* DurationSeconds of assume_role
DurationSeconds == 3600

(***************************************************************************)
(* Generic helpers.                                                        *)
(***************************************************************************)
Range(s) == {s[i] : i \in 1..Len(s)}

RECURSIVE Flatten(_)
Flatten(ss) == IF ss = <<>> THEN <<>> ELSE Head(ss) \o Flatten(Tail(ss))

\* the bag (multiset) of the elements of a sequence
RECURSIVE SeqToBag(_)
SeqToBag(s) == IF s = <<>> THEN EmptyBag ELSE SetToBag({Head(s)}) (+) SeqToBag(Tail(s))

Count(s, x) == Cardinality({i \in 1..Len(s) : s[i] = x})

\* Python's None
None == [kind |-> "None"]

(***************************************************************************)
(* The environment: the organization, and the resources each scanner       *)
(* would list in each account and region.                                  *)
(***************************************************************************)
\* the pages of organizations:ListAccounts
OrgPages ==
    << << [Id |-> "A", Name |-> "Alpha",   Status |-> "ACTIVE"],
          [Id |-> "B", Name |-> "Bravo",   Status |-> "ACTIVE"] >>,
       << [Id |-> "D", Name |-> "Delta",   Status |-> "SUSPENDED"],
          [Id |-> "C", Name |-> "Charlie", Status |-> "ACTIVE"] >> >>

OrgIds == {acc.Id : acc \in Range(Flatten(OrgPages))}

RegionNames == {"r1", "r2"}

\* the configurations a run is started with
RegionLists == { <<>>, <<"r1">>, <<"r1", "r2">> }
Blacklists  == { {}, {"B", "C"}, {"C", "D"}, {"A", "B", "C"} }

\* the registered scanners, in registry order (a regional one, then a global one)
Scanners ==
    << [resource_type |-> "EC2 Instance", sheet_name |-> "EC2 Instances", is_global |-> FALSE],
       [resource_type |-> "S3 Bucket",    sheet_name |-> "S3 Buckets",    is_global |-> TRUE] >>

SheetNames == {sc.sheet_name : sc \in Range(Scanners)}

\* how many resources scanner sc lists in (account, region)
InventorySize(sc, account_id, region) ==
    IF sc.is_global
    THEN (IF account_id = "A" THEN 2 ELSE IF account_id = "B" THEN 0 ELSE 1)
    ELSE (IF account_id = "A" /\ region = "r1" THEN 5
          ELSE IF account_id = "C" /\ region = "r2" THEN 0
          ELSE IF region = "r1" THEN 1 ELSE 2)

\* the records scan() returns for one (scanner, account, region)
ScanRecords(sc, account_id, account_name, region) ==
    [i \in 1..InventorySize(sc, account_id, region) |->
        [type |-> sc.resource_type, account_id |-> account_id,
         account_name |-> account_name, region |-> region, n |-> i]]

(***************************************************************************)
(* Pure functions of the program.                                          *)
(***************************************************************************)
\* is_account_allowed with a slip: the test is inverted
is_account_allowed_Inverted(account_blacklist, account_id) == account_id \in account_blacklist

\* Config.is_account_allowed
is_account_allowed(account_blacklist, account_id) == account_id \notin account_blacklist

\* Config.filter_accounts; a dict is modelled as the sequence of its items,
\* in insertion order
filter_accounts(account_blacklist, accounts) ==
    SelectSeq(accounts, LAMBDA item : is_account_allowed(account_blacklist, item[1]))

\* the account loop of OIDCAuthenticator.list_accounts over the pages read:
\* an id listed again overwrites the name and keeps its place
RECURSIVE DictPut(_, _, _)
DictPut(d, k, v) ==
    IF d = <<>> THEN << <<k, v>> >>
    ELSE IF Head(d)[1] = k THEN << <<k, v>> >> \o Tail(d)
    ELSE << Head(d) >> \o DictPut(Tail(d), k, v)

RECURSIVE ActiveAccounts(_, _)
ActiveAccounts(listed, accounts) ==
    IF listed = <<>> THEN accounts
    ELSE ActiveAccounts(Tail(listed),
            IF Head(listed).Status = "ACTIVE"
            THEN DictPut(accounts, Head(listed).Id, Head(listed).Name)
            ELSE accounts)

\* list_accounts with a slip: only the first page of the paginator is read
list_accounts_FirstPage(pages) == ActiveAccounts(Head(pages), <<>>)

list_accounts(pages) == ActiveAccounts(Flatten(pages), <<>>)

\* the error line of BaseScanner.scan_account_region
UnitError(sc, account_id, account_name, region, detail) ==
    [kind |-> "unit", resource_type |-> sc.resource_type, account_id |-> account_id,
     account_name |-> account_name, region |-> region, detail |-> detail]

\* scan_account_region with a slip: the records scan() had listed before it
\* raised are returned together with the error
scan_account_region_KeepsPartial(sc, account_id, account_name, region, answer) ==
    IF answer = "ok"
    THEN << ScanRecords(sc, account_id, account_name, region), None >>
    ELSE << SelectSeq(ScanRecords(sc, account_id, account_name, region),
                      LAMBDA rec : rec.n = 1),
            UnitError(sc, account_id, account_name, region, "str(e)") >>

\* BaseScanner.scan_account_region, given what scan() does: "ok" (returns its
\* records), "AccessDenied" (ClientError with code AccessDenied or
\* UnauthorizedAccess), "ClientError" (any other code), "Exception"
scan_account_region(sc, account_id, account_name, region, answer) ==
    IF answer = "ok"
    THEN << ScanRecords(sc, account_id, account_name, region), None >>
    ELSE IF answer = "AccessDenied"
    THEN << <<>>, UnitError(sc, account_id, account_name, region, "Access Denied") >>
    ELSE << <<>>, UnitError(sc, account_id, account_name, region, "str(e)") >>

\* the failure entries scan_organization appends itself
CredentialsError(account_id, account_name) ==
    [kind |-> "credentials", account_id |-> account_id, account_name |-> account_name]

UnexpectedError(account_id, account_name) ==
    [kind |-> "unexpected", account_id |-> account_id, account_name |-> account_name,
     detail |-> "str(e)"]

\* defaultdict(list)[key].extend(items)
DictExtend(d, key, items) ==
    IF key \in DOMAIN d THEN [d EXCEPT ![key] = @ \o items] ELSE (key :> items) @@ d

\* NextPosition with a slip: a regional scanner's loop ends after one region
RECURSIVE NextPosition_OneRegion(_, _, _)
NextPosition_OneRegion(regions, si, ri) ==
    IF si > Len(Scanners) THEN <<si, 1>>
    ELSE IF Scanners[si].is_global THEN <<si, 1>>
    ELSE IF ri > Len(regions) \/ ri > 1 THEN NextPosition_OneRegion(regions, si + 1, 1)
    ELSE <<si, ri>>

\* where _scan_account stands after leaving position (si, ri) of its two loops:
\* the next scanner that has something to do, or past the last scanner
RECURSIVE NextPosition(_, _, _)
NextPosition(regions, si, ri) ==
    IF si > Len(Scanners) THEN <<si, 1>>
    ELSE IF Scanners[si].is_global THEN <<si, 1>>
    ELSE IF ri > Len(regions) THEN NextPosition(regions, si + 1, 1)
    ELSE <<si, ri>>

\* GlobalRegion with a slip: the last configured region
GlobalRegion_Last(regions) == regions[Len(regions)]

\* the region _scan_account passes to a global scanner
GlobalRegion(regions) == regions[1]

\* MergeResources with a slip: the scanner's list is assigned, not extended
MergeResources_Overwrites(res, resources_by_scanner) ==
    [name \in DOMAIN res |->
        IF name \in DOMAIN resources_by_scanner
        THEN [res[name] EXCEPT !.resources = resources_by_scanner[name]]
        ELSE res[name]]

\* the merge of one task's resources_by_scanner into self.results
MergeResources(res, resources_by_scanner) ==
    [name \in DOMAIN res |->
        IF name \in DOMAIN resources_by_scanner
        THEN [res[name] EXCEPT !.resources = @ \o resources_by_scanner[name]]
        ELSE res[name]]

\* MergeOutcome with a slip: a merged account is not counted
MergeOutcome_NoCount(rep, account_id, account_name, task) ==
    IF task.state = "returned"
    THEN [results |-> MergeResources(rep.results, task.resources_by_scanner),
          errors |-> rep.errors \o task.errors,
          accounts_scanned |-> rep.accounts_scanned]
    ELSE [rep EXCEPT !.errors = Append(@, UnexpectedError(account_id, account_name))]

\* MergeOutcome with a slip: the task's errors are not collected
MergeOutcome_DropsErrors(rep, account_id, account_name, task) ==
    IF task.state = "returned"
    THEN [results |-> MergeResources(rep.results, task.resources_by_scanner),
          errors |-> rep.errors,
          accounts_scanned |-> rep.accounts_scanned + 1]
    ELSE [rep EXCEPT !.errors = Append(@, UnexpectedError(account_id, account_name))]

\* the body of the as_completed loop on the report under construction
\* (results, errors, accounts_scanned), for a finished task: the merge of what
\* it returned, or the entry for what it raised
MergeOutcome(rep, account_id, account_name, task) ==
    IF task.state = "returned"
    THEN [results |-> MergeResources(rep.results, task.resources_by_scanner),
          errors |-> rep.errors \o task.errors,
          accounts_scanned |-> rep.accounts_scanned + 1]
    ELSE [rep EXCEPT !.errors = Append(@, UnexpectedError(account_id, account_name))]

\* InitialResults with a slip: the entries of the global scanners are left out
InitialResults_RegionalOnly ==
    [name \in {sc.sheet_name : sc \in {x \in Range(Scanners) : ~x.is_global}} |->
        LET sc == CHOOSE x \in Range(Scanners) : x.sheet_name = name
        IN  [resource_type |-> sc.resource_type, sheet_name |-> sc.sheet_name,
             resources |-> <<>>, errors |-> <<>>, is_global |-> sc.is_global]]

\* the ScanResult entries scan_organization starts from, one per scanner
InitialResults ==
    [name \in SheetNames |->
        LET sc == CHOOSE x \in Range(Scanners) : x.sheet_name = name
        IN  [resource_type |-> sc.resource_type, sheet_name |-> sc.sheet_name,
             resources |-> <<>>, errors |-> <<>>, is_global |-> sc.is_global]]

(***************************************************************************)
(* The state.                                                              *)
(***************************************************************************)
VARIABLES
    config,            \* Config: target_regions, max_workers, account_blacklist
    now,               \* the time, in seconds since the run began
    org,               \* the pages organizations:ListAccounts answers with
    scan,              \* a call of a scanner's scan(): its listing and how far it is
    startup,           \* what load_config finds: the environment and the file
    instances,         \* the scanner instances' own state (resources, errors)
    pc,                \* where the main thread stands in run()
    exit_status,       \* the process's exit status, None while it runs
    all_accounts,      \* scan_organization's all_accounts
    accounts,          \* scan_organization's accounts (after the blacklist)
    idx,               \* position of the submission loop in accounts
    queue,             \* the executor's work queue (account ids, FIFO)
    tasks,             \* one _scan_account task (future) per account id
    collected,         \* the futures as_completed has yielded so far
    results,           \* self.results
    all_errors,        \* self.all_errors
    accounts_scanned,  \* self.accounts_scanned
    progress,          \* how often progress.update(task, advance=1) ran
    report,            \* what create_inventory_report was given, None before
    calls,             \* history: how each call of verify_credentials and of
                       \* list_accounts ended ("ok", "failed"), and where the
                       \* main thread was when a KeyboardInterrupt was raised
    cred_calls,        \* history: per account, how each get_account_credentials
                       \* call ended ("ok", "None", "raised")
    invocations        \* history: per unit, for each scan_account_region call: the
                       \* resources and the error it returned, the credentials it
                       \* was given and the time of the call

vars == << config, now, org, scan, startup, instances, pc, exit_status, all_accounts, accounts, idx, queue, tasks,
           collected, results, all_errors, accounts_scanned, progress, report,
           calls, cred_calls, invocations >>

mainVars == << pc, exit_status, all_accounts, accounts, idx, collected, results,
               all_errors, accounts_scanned, progress, report, calls, cred_calls >>

Units == OrgIds \X RegionNames \X SheetNames

NoTask == [state |-> "none", credentials |-> None, si |-> 1, ri |-> 1,
           resources_by_scanner |-> <<>>, errors |-> <<>>]

\* BaseScanner.__init__ of every registered scanner
NewInstances == [name \in SheetNames |-> [resources |-> <<>>, errors |-> <<>>]]

\* the orchestrator after AWSResourceInventory.__init__, for a Config among
\* configs
InitRun(configs) ==
    /\ config \in configs
    /\ now = 0
    /\ instances = NewInstances
    /\ pc = "verify"
    /\ exit_status = None
    /\ all_accounts = <<>>
    /\ accounts = <<>>
    /\ idx = 1
    /\ queue = <<>>
    /\ tasks = [a \in OrgIds |-> NoTask]
    /\ collected = {}
    /\ results = <<>>
    /\ all_errors = <<>>
    /\ accounts_scanned = 0
    /\ progress = 0
    /\ report = None
    /\ calls = [verify |-> <<>>, list |-> <<>>, interrupt |-> <<>>]
    /\ cred_calls = [a \in OrgIds |-> <<>>]
    /\ invocations = [u \in Units |-> <<>>]

\* a run in the organization OrgPages
InitWith(configs) ==
    /\ InitRun(configs)
    /\ org = OrgPages
    /\ scan = None
    /\ startup = None

Init ==
    InitWith([target_regions : RegionLists, max_workers : 1..MaxWorkers,
              account_blacklist : Blacklists])

\* runs with every blacklist over the organization's ids, and at most one region
InitExclusion ==
    InitWith([target_regions : {r \in RegionLists : Len(r) <= 1},
              max_workers : {MaxWorkers},
              account_blacklist : SUBSET OrgIds])

\* ids and names of a dict of accounts
Ids(accs) == {accs[i][1] : i \in 1..Len(accs)}
NameOf(accs, account_id) == (CHOOSE i \in 1..Len(accs) : accs[i][1] = account_id)
AccountName(account_id) == accounts[NameOf(accounts, account_id)][2]

Submitted == {a \in OrgIds : tasks[a].state # "none"}
Running   == {a \in OrgIds : tasks[a].state = "running"}
Terminal  == {a \in OrgIds : tasks[a].state \in {"returned", "raised"}}

\* the failures one run may see: MaxFaults, and one more in a run of a single
\* account, so that every invocation of an account can fail
FaultBudget == MaxFaults + (IF Len(accounts) = 1 THEN 1 ELSE 0)

\* the invocations that failed so far
Faults == Cardinality({u \in Units : \E i \in 1..Len(invocations[u]) : invocations[u][i][2] # None})

\* the status a finished process left
ExitCode(status) == [kind |-> "exit", code |-> status]

\* sys.exit(status)
Exit(status) ==
    /\ pc' = "exited"
    /\ exit_status' = ExitCode(status)

(***************************************************************************)
(* The main thread: run() and scan_organization().                         *)
(***************************************************************************)
\* verify_credentials() returns True
VerifyOk ==
    /\ pc = "verify"
    /\ calls' = [calls EXCEPT !.verify = Append(@, "ok")]
    /\ pc' = "list"
    /\ UNCHANGED << config, now, org, scan, startup, instances, exit_status, all_accounts, accounts, idx, queue, tasks,
                    collected, results, all_errors, accounts_scanned, progress,
                    report, cred_calls, invocations >>

\* verify_credentials() returns False (get_caller_identity raised): sys.exit(1)
VerifyFail ==
    /\ pc = "verify"
    /\ calls' = [calls EXCEPT !.verify = Append(@, "failed")]
    /\ Exit(1)
    /\ UNCHANGED << config, now, org, scan, startup, instances, all_accounts, accounts, idx, queue, tasks, collected,
                    results, all_errors, accounts_scanned, progress, report,
                    cred_calls, invocations >>

\* list_accounts() returns the active accounts
ListAccountsOk ==
    /\ pc = "list"
    /\ calls' = [calls EXCEPT !.list = Append(@, "ok")]
    /\ all_accounts' = list_accounts(org)
    /\ pc' = "filter"
    /\ UNCHANGED << config, now, org, scan, startup, instances, exit_status, accounts, idx, queue, tasks, collected,
                    results, all_errors, accounts_scanned, progress, report,
                    cred_calls, invocations >>

\* ListAccountsRaises with a slip: list_accounts swallows the error and returns
\* the empty dict it has built, so the run goes on with no account
ListAccountsRaises_Swallowed ==
    /\ pc = "list"
    /\ calls' = [calls EXCEPT !.list = Append(@, "failed")]
    /\ all_accounts' = <<>>
    /\ pc' = "filter"
    /\ UNCHANGED << config, now, org, scan, startup, instances, exit_status, accounts, idx, queue, tasks, collected,
                    results, all_errors, accounts_scanned, progress, report,
                    cred_calls, invocations >>

\* list_accounts() raises (a ClientError it logs and re-raises, or any other
\* exception of the paginator): run() catches it and calls sys.exit(1)
ListAccountsRaises ==
    /\ pc = "list"
    /\ calls' = [calls EXCEPT !.list = Append(@, "failed")]
    /\ Exit(1)
    /\ UNCHANGED << config, now, org, scan, startup, instances, all_accounts, accounts, idx, queue, tasks, collected,
                    results, all_errors, accounts_scanned, progress, report,
                    cred_calls, invocations >>

\* the blacklist filter and the initialization of self.results
FilterAndInit ==
    /\ pc = "filter"
    /\ accounts' = filter_accounts(config.account_blacklist, all_accounts)
    /\ results' = InitialResults
    /\ pc' = "executor"
    /\ UNCHANGED << config, now, org, scan, startup, instances, exit_status, all_accounts, idx, queue, tasks, collected,
                    all_errors, accounts_scanned, progress, report, calls,
                    cred_calls, invocations >>

\* the progress bar and ThreadPoolExecutor(max_workers=...) are entered
CreateExecutor ==
    /\ pc = "executor"
    /\ pc' = "submit"
    /\ UNCHANGED << config, now, org, scan, startup, instances, exit_status, all_accounts, accounts, idx, queue, tasks, collected,
                    results, all_errors, accounts_scanned, progress, report, calls,
                    cred_calls, invocations >>

\* the account the submission loop is at
CurrentAccount == accounts[idx]

\* what get_account_credentials returns when assume_role succeeds: the keys
\* and the session token of the role in the account; the token is valid for
\* DurationSeconds from now (the dict returned does not carry the expiry)
AssumedRole(account_id) == [role_in |-> account_id, expires_at |-> now + DurationSeconds]

\* AWS rejects a session token from its expiry on
Expired(credentials) == now >= credentials.expires_at

\* executor.submit(self._scan_account, account_id, account_name, credentials)
SubmitTask(account_id, credentials) ==
    /\ tasks' = [tasks EXCEPT ![account_id] =
                    [NoTask EXCEPT !.state = "queued", !.credentials = credentials]]
    /\ queue' = Append(queue, account_id)

\* CredentialsOk with a slip: every task is submitted with the credentials of
\* the first account
CredentialsOk_FirstCredentials ==
    /\ pc = "submit"
    /\ idx <= Len(accounts)
    /\ cred_calls' = [cred_calls EXCEPT ![CurrentAccount[1]] = Append(@, "ok")]
    /\ SubmitTask(CurrentAccount[1], AssumedRole(accounts[1][1]))
    /\ idx' = idx + 1
    /\ UNCHANGED << config, now, org, scan, startup, instances, pc, exit_status, all_accounts, accounts, collected,
                    results, all_errors, accounts_scanned, progress, report, calls,
                    invocations >>

\* the loop body when get_account_credentials returns credentials
CredentialsOk ==
    /\ pc = "submit"
    /\ idx <= Len(accounts)
    /\ cred_calls' = [cred_calls EXCEPT ![CurrentAccount[1]] = Append(@, "ok")]
    /\ SubmitTask(CurrentAccount[1], AssumedRole(CurrentAccount[1]))
    /\ idx' = idx + 1
    /\ UNCHANGED << config, now, org, scan, startup, instances, pc, exit_status, all_accounts, accounts, collected,
                    results, all_errors, accounts_scanned, progress, report, calls,
                    invocations >>

\* RecordNoCredentials with a slip: the loop stays at the account, and so
\* asks for its credentials again
RecordNoCredentials_AsksAgain ==
    /\ all_errors' = Append(all_errors, CredentialsError(CurrentAccount[1], CurrentAccount[2]))
    /\ progress' = progress + 1
    /\ idx' = idx

\* the loop body when get_account_credentials returns None
RecordNoCredentials ==
    /\ all_errors' = Append(all_errors, CredentialsError(CurrentAccount[1], CurrentAccount[2]))
    /\ progress' = progress + 1
    /\ idx' = idx + 1

\* CredentialsDenied with a slip: the `continue` is missing, so the account is
\* submitted with the None it got
CredentialsDenied_StillSubmits ==
    /\ pc = "submit"
    /\ idx <= Len(accounts)
    /\ cred_calls' = [cred_calls EXCEPT ![CurrentAccount[1]] = Append(@, "None")]
    /\ RecordNoCredentials
    /\ SubmitTask(CurrentAccount[1], None)
    /\ UNCHANGED << config, now, org, scan, startup, instances, pc, exit_status, all_accounts, accounts, collected,
                    results, accounts_scanned, report, calls, invocations >>

\* assume_role raises ClientError (AccessDenied or any other code):
\* get_account_credentials returns None
CredentialsDenied ==
    /\ pc = "submit"
    /\ idx <= Len(accounts)
    /\ cred_calls' = [cred_calls EXCEPT ![CurrentAccount[1]] = Append(@, "None")]
    /\ RecordNoCredentials
    /\ UNCHANGED << config, now, org, scan, startup, instances, pc, exit_status, all_accounts, accounts, queue, tasks,
                    collected, results, accounts_scanned, report, calls, invocations >>

\* assume_role raises something that is no ClientError: get_account_credentials
\* does not catch it and it leaves the loop; the executor's __exit__ waits
CredentialsRaises ==
    /\ pc = "submit"
    /\ idx <= Len(accounts)
    /\ cred_calls' = [cred_calls EXCEPT ![CurrentAccount[1]] = Append(@, "raised")]
    /\ pc' = "shutdown"
    /\ UNCHANGED << config, now, org, scan, startup, instances, exit_status, all_accounts, accounts, idx, queue, tasks,
                    collected, results, all_errors, accounts_scanned, progress,
                    report, calls, invocations >>

\* ShutdownAfterException with a slip: the executor is left without waiting
\* for the submitted tasks
ShutdownAfterException_NoWait ==
    /\ pc = "shutdown"
    /\ Exit(1)
    /\ UNCHANGED << config, now, org, scan, startup, instances, all_accounts, accounts, idx, queue, tasks, collected,
                    results, all_errors, accounts_scanned, progress, report, calls,
                    cred_calls, invocations >>

\* the exception has waited for the submitted tasks (shutdown(wait=True)) and
\* reaches run(), whose handlers (KeyboardInterrupt, Exception) both call
\* sys.exit(1)
ShutdownAfterException ==
    /\ pc = "shutdown"
    /\ Submitted \subseteq Terminal
    /\ Exit(1)
    /\ UNCHANGED << config, now, org, scan, startup, instances, all_accounts, accounts, idx, queue, tasks, collected,
                    results, all_errors, accounts_scanned, progress, report, calls,
                    cred_calls, invocations >>

\* the submission loop ends
SubmitDone ==
    /\ pc = "submit"
    /\ idx > Len(accounts)
    /\ pc' = "collect"
    /\ UNCHANGED << config, now, org, scan, startup, instances, exit_status, all_accounts, accounts, idx, queue, tasks,
                    collected, results, all_errors, accounts_scanned, progress,
                    report, calls, cred_calls, invocations >>

\* the report under construction
UnderConstruction ==
    [results |-> results, errors |-> all_errors, accounts_scanned |-> accounts_scanned]

\* as_completed yields a future whose task returned: its result is merged
MergeResult(a) ==
    /\ pc = "collect"
    /\ a \in Submitted \ collected
    /\ tasks[a].state = "returned"
    /\ LET merged == MergeOutcome(UnderConstruction, a, AccountName(a), tasks[a])
       IN  /\ results' = merged.results
           /\ all_errors' = merged.errors
           /\ accounts_scanned' = merged.accounts_scanned
    /\ progress' = progress + 1
    /\ collected' = collected \cup {a}
    /\ UNCHANGED << config, now, org, scan, startup, instances, pc, exit_status, all_accounts, accounts, idx, queue,
                    tasks, report, calls, cred_calls, invocations >>

\* MergeException with a slip: what the task had collected before it raised
\* is merged as well
MergeException_MergesPartial(a) ==
    /\ pc = "collect"
    /\ a \in Submitted \ collected
    /\ tasks[a].state = "raised"
    /\ results' = MergeResources(results, tasks[a].resources_by_scanner)
    /\ all_errors' = (all_errors \o tasks[a].errors)
                        \o << UnexpectedError(a, AccountName(a)) >>
    /\ progress' = progress + 1
    /\ collected' = collected \cup {a}
    /\ UNCHANGED << config, now, org, scan, startup, instances, pc, exit_status, all_accounts, accounts, idx, queue,
                    tasks, accounts_scanned, report, calls, cred_calls,
                    invocations >>

\* as_completed yields a future whose task raised: future.result() raises
MergeException(a) ==
    /\ pc = "collect"
    /\ a \in Submitted \ collected
    /\ tasks[a].state = "raised"
    /\ LET merged == MergeOutcome(UnderConstruction, a, AccountName(a), tasks[a])
       IN  all_errors' = merged.errors
    /\ progress' = progress + 1
    /\ collected' = collected \cup {a}
    /\ UNCHANGED << config, now, org, scan, startup, instances, pc, exit_status, all_accounts, accounts, idx, queue,
                    tasks, results, accounts_scanned, report, calls, cred_calls,
                    invocations >>

\* CollectDone with a slip: the loop over the futures is left while some have
\* not been yielded
CollectDone_Early ==
    /\ pc = "collect"
    /\ pc' = "export"
    /\ UNCHANGED << config, now, org, scan, startup, instances, exit_status, all_accounts, accounts, idx, queue, tasks,
                    collected, results, all_errors, accounts_scanned, progress,
                    report, calls, cred_calls, invocations >>

\* as_completed is exhausted; the executor and the progress bar are left
CollectDone ==
    /\ pc = "collect"
    /\ collected = Submitted
    /\ pc' = "export"
    /\ UNCHANGED << config, now, org, scan, startup, instances, exit_status, all_accounts, accounts, idx, queue, tasks,
                    collected, results, all_errors, accounts_scanned, progress,
                    report, calls, cred_calls, invocations >>

\* export_to_excel(): the report writer is handed the results; run() returns
ExportToExcel ==
    /\ pc = "export"
    /\ report' = [results |-> results, errors |-> all_errors,
                  accounts_scanned |-> accounts_scanned,
                  regions_scanned |-> Len(config.target_regions)]
    /\ pc' = "done"
    /\ exit_status' = ExitCode(0)
    /\ UNCHANGED << config, now, org, scan, startup, instances, all_accounts, accounts, idx, queue, tasks, collected,
                    results, all_errors, accounts_scanned, progress, calls,
                    cred_calls, invocations >>

(***************************************************************************)
(* The pool threads: _scan_account().                                      *)
(***************************************************************************)
\* TaskStart with a slip: the pool starts a thread for every queued task
TaskStart_NoCeiling(a) ==
    /\ queue # <<>>
    /\ a = Head(queue)
    /\ queue' = Tail(queue)
    /\ LET pos == NextPosition(config.target_regions, 1, 1)
       IN  tasks' = [tasks EXCEPT ![a].state = "running", ![a].si = pos[1], ![a].ri = pos[2]]
    /\ UNCHANGED << config, now, org, scan, startup, instances, invocations >>
    /\ UNCHANGED mainVars

\* a free pool thread takes the oldest queued task and enters _scan_account
TaskStart(a) ==
    /\ queue # <<>>
    /\ a = Head(queue)
    /\ Cardinality(Running) < config.max_workers
    /\ queue' = Tail(queue)
    /\ LET pos == NextPosition(config.target_regions, 1, 1)
       IN  tasks' = [tasks EXCEPT ![a].state = "running", ![a].si = pos[1], ![a].ri = pos[2]]
    /\ UNCHANGED << config, now, org, scan, startup, instances, invocations >>
    /\ UNCHANGED mainVars

\* the task of account a stands at a scanner invocation
AtInvocation(a) ==
    /\ tasks[a].state = "running"
    /\ tasks[a].si <= Len(Scanners)
    /\ Scanners[tasks[a].si].is_global => config.target_regions # <<>>

\* InvocationRegion with a slip: a regional scanner walks the configured
\* regions from the last to the first
InvocationRegion_Reversed(a) ==
    IF Scanners[tasks[a].si].is_global
    THEN GlobalRegion(config.target_regions)
    ELSE config.target_regions[Len(config.target_regions) + 1 - tasks[a].ri]

\* the region of the invocation the task of account a stands at
InvocationRegion(a) ==
    IF Scanners[tasks[a].si].is_global
    THEN GlobalRegion(config.target_regions)
    ELSE config.target_regions[tasks[a].ri]

\* Invoke with a slip: scan_account_region collects into the scanner
\* instance's self.resources and returns that list, which the tasks of all
\* accounts share
Invoke_SharedBuffer(a, answer) ==
    LET t      == tasks[a]
        sc     == Scanners[t.si]
        region == InvocationRegion(a)
        got    == scan_account_region(sc, a, AccountName(a), region, answer)
        buffer == instances[sc.sheet_name].resources \o got[1]
        pos    == IF sc.is_global
                  THEN NextPosition(config.target_regions, t.si + 1, 1)
                  ELSE NextPosition(config.target_regions, t.si, t.ri + 1)
    IN  /\ tasks' = [tasks EXCEPT
                ![a].resources_by_scanner = DictExtend(@, sc.sheet_name, buffer),
                ![a].errors = IF got[2] # None THEN Append(@, got[2]) ELSE @,
                ![a].si = pos[1],
                ![a].ri = pos[2]]
        /\ invocations' = [invocations EXCEPT ![<<a, region, sc.sheet_name>>] =
                                Append(@, << buffer, got[2], t.credentials, now >>)]
        /\ instances' = [instances EXCEPT ![sc.sheet_name].resources = buffer]

\* Invoke with a slip: after a call that returned an error the loops do not
\* advance, so the same call is made again
Invoke_RetriesFailure(a, answer) ==
    LET t      == tasks[a]
        sc     == Scanners[t.si]
        region == InvocationRegion(a)
        got    == scan_account_region(sc, a, AccountName(a), region, answer)
        pos    == IF got[2] # None THEN << t.si, t.ri >>
                  ELSE IF sc.is_global
                  THEN NextPosition(config.target_regions, t.si + 1, 1)
                  ELSE NextPosition(config.target_regions, t.si, t.ri + 1)
    IN  /\ tasks' = [tasks EXCEPT
                ![a].resources_by_scanner = DictExtend(@, sc.sheet_name, got[1]),
                ![a].errors = IF got[2] # None THEN Append(@, got[2]) ELSE @,
                ![a].si = pos[1],
                ![a].ri = pos[2]]
        /\ invocations' = [invocations EXCEPT ![<<a, region, sc.sheet_name>>] =
                                Append(@, << got[1], got[2], t.credentials, now >>)]
        /\ instances' = instances

\* one pass of the loop body: scan_account_region is called where scan() does
\* `answer`, its resources extend the scanner's list and its error, if any, is
\* appended; then the loops advance
Invoke(a, answer) ==
    LET t      == tasks[a]
        sc     == Scanners[t.si]
        region == InvocationRegion(a)
        got    == scan_account_region(sc, a, AccountName(a), region, answer)
        pos    == IF sc.is_global
                  THEN NextPosition(config.target_regions, t.si + 1, 1)
                  ELSE NextPosition(config.target_regions, t.si, t.ri + 1)
    IN  /\ tasks' = [tasks EXCEPT
                ![a].resources_by_scanner = DictExtend(@, sc.sheet_name, got[1]),
                ![a].errors = IF got[2] # None THEN Append(@, got[2]) ELSE @,
                ![a].si = pos[1],
                ![a].ri = pos[2]]
        /\ invocations' = [invocations EXCEPT ![<<a, region, sc.sheet_name>>] =
                                Append(@, << got[1], got[2], t.credentials, now >>)]
        /\ instances' = instances

\* scan() returns its records
InvokeOk(a) ==
    /\ AtInvocation(a)
    /\ ~Expired(tasks[a].credentials)
    /\ Invoke(a, "ok")
    /\ UNCHANGED << config, now, org, scan, startup, queue >>
    /\ UNCHANGED mainVars

\* scan() raises ClientError with code AccessDenied
InvokeAccessDenied(a) ==
    /\ AtInvocation(a)
    /\ Faults < FaultBudget
    /\ ~Expired(tasks[a].credentials)
    /\ Invoke(a, "AccessDenied")
    /\ UNCHANGED << config, now, org, scan, startup, queue >>
    /\ UNCHANGED mainVars

\* scan() raises ClientError with another code
InvokeClientError(a) ==
    /\ AtInvocation(a)
    /\ Faults < FaultBudget
    /\ ~Expired(tasks[a].credentials)
    /\ Invoke(a, "ClientError")
    /\ UNCHANGED << config, now, org, scan, startup, queue >>
    /\ UNCHANGED mainVars

\* scan() (or boto3.Session) raises any other Exception
InvokeException(a) ==
    /\ AtInvocation(a)
    /\ Faults < FaultBudget
    /\ ~Expired(tasks[a].credentials)
    /\ Invoke(a, "Exception")
    /\ UNCHANGED << config, now, org, scan, startup, queue >>
    /\ UNCHANGED mainVars

\* a global scanner's turn with no region configured: target_regions[0] raises
\* IndexError, which leaves _scan_account
TaskRaises(a) ==
    /\ tasks[a].state = "running"
    /\ tasks[a].si <= Len(Scanners)
    /\ Scanners[tasks[a].si].is_global
    /\ config.target_regions = <<>>
    /\ tasks' = [tasks EXCEPT ![a].state = "raised"]
    /\ UNCHANGED << config, now, org, scan, startup, instances, queue, invocations >>
    /\ UNCHANGED mainVars

\* TaskReturns with a slip: the task appends its errors to self.all_errors
\* itself, from its pool thread
TaskReturns_WritesErrors(a) ==
    /\ tasks[a].state = "running"
    /\ tasks[a].si > Len(Scanners)
    /\ tasks' = [tasks EXCEPT ![a].state = "returned", ![a].errors = <<>>]
    /\ all_errors' = all_errors \o tasks[a].errors
    /\ UNCHANGED << config, now, org, scan, startup, instances, queue, invocations, pc, exit_status, all_accounts,
                    accounts, idx, collected, results, accounts_scanned, progress,
                    report, calls, cred_calls >>

\* _scan_account returns (dict(resources_by_scanner), errors)
TaskReturns(a) ==
    /\ tasks[a].state = "running"
    /\ tasks[a].si > Len(Scanners)
    /\ tasks' = [tasks EXCEPT ![a].state = "returned"]
    /\ UNCHANGED << config, now, org, scan, startup, instances, queue, invocations >>
    /\ UNCHANGED mainVars

(***************************************************************************)
(* The specification.                                                      *)
(***************************************************************************)
Next ==
    \/ VerifyOk
    \/ VerifyFail
    \/ ListAccountsOk
    \/ ListAccountsRaises
    \/ FilterAndInit
    \/ CreateExecutor
    \/ CredentialsOk
    \/ CredentialsDenied
    \/ CredentialsRaises
    \/ ShutdownAfterException
    \/ SubmitDone
    \/ \E a \in OrgIds : MergeResult(a)
    \/ \E a \in OrgIds : MergeException(a)
    \/ CollectDone
    \/ ExportToExcel
    \/ \E a \in OrgIds : TaskStart(a)
    \/ \E a \in OrgIds : InvokeOk(a)
    \/ \E a \in OrgIds : InvokeAccessDenied(a)
    \/ \E a \in OrgIds : InvokeClientError(a)
    \/ \E a \in OrgIds : InvokeException(a)
    \/ \E a \in OrgIds : TaskRaises(a)
    \/ \E a \in OrgIds : TaskReturns(a)

Spec == Init /\ [][Next]_vars

SpecExclusion == InitExclusion /\ [][Next]_vars

(***************************************************************************)
(* Vocabulary of the properties.                                           *)
(***************************************************************************)
\* scan_organization returned and the report writer was called
Completed == pc = "done"

ScannerOf(name) == CHOOSE sc \in Range(Scanners) : sc.sheet_name = name

\* accounts by how their get_account_credentials call ended
Delegated == {a \in OrgIds : \E i \in 1..Len(cred_calls[a]) : cred_calls[a][i] = "ok"}
Refused   == {a \in OrgIds : \E i \in 1..Len(cred_calls[a]) : cred_calls[a][i] = "None"}
Escaped   == {a \in OrgIds : \E i \in 1..Len(cred_calls[a]) : cred_calls[a][i] = "raised"}

\* the scan_account_region calls made so far, as <<unit, number of the call>>
Invocations       == {c \in Units \X (1..2) : c[2] <= Len(invocations[c[1]])}
Returned(c)       == invocations[c[1]][c[2]]
FailedInvocations == {c \in Invocations : Returned(c)[2] # None}
InvocationsOf(account_id) == {c \in Invocations : c[1][1] = account_id}

RECURSIVE BagOfReturned(_)
BagOfReturned(cs) ==
    IF cs = {} THEN EmptyBag
    ELSE LET c == CHOOSE x \in cs : TRUE
         IN  SeqToBag(Returned(c)[1]) (+) BagOfReturned(cs \ {c})

RECURSIVE CountReturned(_)
CountReturned(cs) ==
    IF cs = {} THEN 0
    ELSE LET c == CHOOSE x \in cs : TRUE
         IN  Len(Returned(c)[1]) + CountReturned(cs \ {c})

\* sequence part occurs in sequence whole as one contiguous block
IsBlockOf(part, whole) ==
    \E k \in 0..(Len(whole) - Len(part)) :
        \A i \in 1..Len(part) : whole[k + i] = part[i]

EntriesOfKind(errors, kind) == SelectSeq(errors, LAMBDA e : e.kind = kind)

\* the failure entries that refer to an account
EntriesNaming(errors, account_id) == SelectSeq(errors, LAMBDA e : e.account_id = account_id)

(***************************************************************************)
(* C1: completeness under isolated failure.  Whenever a run completes in   *)
(* which exactly one scan_account_region call failed, the report holds,    *)
(* per scanner, exactly the records the other calls returned, each call's  *)
(* records unchanged and in one block, and exactly one failure entry for a *)
(* scanner invocation, which names the failed (account, region, scanner);  *)
(* the only other entries are those of refused accounts.  In particular,   *)
(* when only account A is scanned and the regional scanner returns its 5   *)
(* records for (A, r1) and fails for (A, r2), its merged list is exactly   *)
(* those 5 records and the failure list has exactly 1 entry.               *)
(***************************************************************************)
C1_IsolatedFailure ==
    (Completed /\ Cardinality(FailedInvocations) = 1) =>
        LET f  == CHOOSE c \in FailedInvocations : TRUE
            u  == f[1]
            ue == EntriesOfKind(report.errors, "unit")
        IN  /\ \A name \in SheetNames :
                    LET others == {c \in Invocations \ {f} : c[1][3] = name}
                    IN  /\ SeqToBag(report.results[name].resources) = BagOfReturned(others)
                        /\ \A c \in others :
                                IsBlockOf(Returned(c)[1], report.results[name].resources)
            /\ Len(ue) = 1
            /\ ue[1] = Returned(f)[2]
            /\ ue[1].account_id = u[1]
            /\ ue[1].region = u[2]
            /\ ue[1].resource_type = ScannerOf(u[3]).resource_type
            /\ Len(report.errors) = 1 + Cardinality(Refused)
            /\ ( /\ Submitted = {"A"}
                 /\ Refused = {}
                 /\ u = <<"A", "r2", "EC2 Instances">>
                 /\ <<"A", "r1", "EC2 Instances">> \in {c[1] : c \in Invocations} )
               => /\ report.results["EC2 Instances"].resources
                        = ScanRecords(ScannerOf("EC2 Instances"), "A", "Alpha", "r1")
                  /\ Len(report.results["EC2 Instances"].resources) = 5
                  /\ Len(report.errors) = 1

\* a completed run where the regional scanner returned 5 records for (A, r1)
\* and failed for (A, r2), nothing else failed and only A was scanned
C1_Witness ==
    /\ Completed
    /\ Cardinality(FailedInvocations) = 1
    /\ Submitted = {"A"}
    /\ Refused = {}
    /\ Len(invocations[<<"A", "r2", "EC2 Instances">>]) = 1
    /\ invocations[<<"A", "r2", "EC2 Instances">>][1][2] # None
    /\ Len(report.results["EC2 Instances"].resources) = 5
    /\ Len(report.results["S3 Buckets"].resources) = 2

\* how the last call of verify_credentials and of list_accounts ended
VerifyFailed == calls.verify # <<>> /\ calls.verify[Len(calls.verify)] = "failed"
ListFailed   == calls.list # <<>> /\ calls.list[Len(calls.list)] = "failed"

(***************************************************************************)
(* C2: only a failed verification of the root identity and a failed        *)
(* account listing abort a run; every other failure, a credential          *)
(* delegation failing in any way or a scanner invocation failing, is       *)
(* recorded as a failure entry and the run goes on to its report: the run  *)
(* is never aborted for another reason, every account whose delegation     *)
(* failed has a failure entry, and a completed run's report has an entry   *)
(* for every failed invocation.                                            *)
(***************************************************************************)
C2_OnlyTwoFatalConditions ==
    /\ pc \in {"shutdown", "exited"} => (VerifyFailed \/ ListFailed)
    /\ \A a \in Refused \cup Escaped : EntriesNaming(all_errors, a) # <<>>
    /\ Completed => \A c \in FailedInvocations : Count(report.errors, Returned(c)[2]) >= 1

(***************************************************************************)
(* C3: an account whose get_account_credentials call returned None has     *)
(* exactly one failure entry, the credentials entry naming it; no scanner  *)
(* is ever invoked for it, no task exists for it, no record of it is in    *)
(* the results, and accounts_scanned counts only merged tasks, of which it *)
(* has none.                                                               *)
(***************************************************************************)
C3_RefusedAccountExcluded ==
    \A a \in Refused :
        /\ EntriesNaming(all_errors, a) = << CredentialsError(a, AccountName(a)) >>
        /\ InvocationsOf(a) = {}
        /\ tasks[a].state = "none"
        /\ a \notin collected
        /\ \A name \in DOMAIN results :
                \A i \in 1..Len(results[name].resources) :
                    results[name].resources[i].account_id # a
        /\ accounts_scanned = Cardinality({b \in collected : tasks[b].state = "returned"})
        /\ accounts_scanned <= Cardinality(Ids(accounts) \ Refused)
        /\ Completed => /\ report.accounts_scanned = accounts_scanned
                        /\ report.errors = all_errors
                        /\ report.results = results

\* a completed run in which one account was refused and another was scanned
\* and contributed records
C3_Witness ==
    /\ Completed
    /\ "B" \in Refused
    /\ report.accounts_scanned = 2
    /\ Len(report.results["EC2 Instances"].resources) > 0

(***************************************************************************)
(* C4: fatal short-circuit.  When verify_credentials fails, list_accounts  *)
(* is never called; when list_accounts fails, get_account_credentials and  *)
(* scan_account_region are never called; in both cases no report is        *)
(* written and the process has exited with status 1.                       *)
(***************************************************************************)
C4_FatalShortCircuit ==
    /\ VerifyFailed => calls.list = <<>>
    /\ (VerifyFailed \/ ListFailed) =>
            /\ \A a \in OrgIds : cred_calls[a] = <<>>
            /\ Invocations = {}
            /\ Submitted = {}
            /\ report = None
            /\ pc = "exited"
            /\ exit_status = ExitCode(1)
    /\ Len(calls.verify) <= 1
    /\ Len(calls.list) <= 1

\* the account listing failed and the process has exited
C4_Witness ==
    /\ ListFailed
    /\ pc = "exited"
    /\ exit_status.code # 0

\* `kept` is exactly `accs` without the ids of E
FilteredExactly(E, accs, kept) ==
    /\ Ids(kept) = Ids(accs) \ E
    /\ Range(kept) \subseteq Range(accs)
    /\ Len(kept) = Cardinality(Ids(kept))
    /\ \A i, j \in 1..Len(kept) :
            i < j => NameOf(accs, kept[i][1]) < NameOf(accs, kept[j][1])

\* the merged records of an account
RecordsOf(account_id) ==
    {rec \in UNION {Range(results[name].resources) : name \in DOMAIN results} :
        rec.account_id = account_id}

(***************************************************************************)
(* C5: exclusion invariant.  filter_accounts returns exactly the accounts  *)
(* whose id is not in the blacklist, with their names, in their order and  *)
(* each once; and for an account in the blacklist there is never a         *)
(* get_account_credentials call, a scanner invocation, a task, a record or *)
(* a failure entry.                                                        *)
(***************************************************************************)
C5_Exclusion ==
    /\ pc \notin {"verify", "list", "filter"} /\ ~ListFailed /\ ~VerifyFailed =>
            FilteredExactly(config.account_blacklist, all_accounts, accounts)
    /\ \A E \in SUBSET OrgIds : \A k \in 0..Len(all_accounts) :
            LET accs == SubSeq(all_accounts, 1, k)
            IN  FilteredExactly(E, accs, filter_accounts(E, accs))
    /\ \A a \in config.account_blacklist :
            /\ cred_calls[a] = <<>>
            /\ InvocationsOf(a) = {}
            /\ tasks[a].state = "none"
            /\ EntriesNaming(all_errors, a) = <<>>
            /\ RecordsOf(a) = {}
            /\ Completed => EntriesNaming(report.errors, a) = <<>>

\* a completed run that excluded B and D and scanned A and C
C5_Witness ==
    /\ Completed
    /\ config.account_blacklist = {"B", "D"}
    /\ Ids(accounts) = {"A", "C"}
    /\ report.accounts_scanned = 2
    /\ RecordsOf("A") # {}
    /\ RecordsOf("C") # {}

\* the global scanners
GlobalSheetNames == {name \in SheetNames : ScannerOf(name).is_global}

(***************************************************************************)
(* C6: global-scanner singularity.  With at least one region configured, a *)
(* global scanner is never invoked more than once for an account, never    *)
(* with another region than the first configured one, never for an account *)
(* without delegated credentials, and exactly once for every account whose *)
(* task has returned.                                                      *)
(***************************************************************************)
C6_GlobalSingularity ==
    config.target_regions # <<>> =>
        \A name \in GlobalSheetNames : \A a \in OrgIds :
            LET cs == {c \in Invocations : c[1][1] = a /\ c[1][3] = name}
            IN  /\ Cardinality(cs) <= 1
                /\ \A c \in cs : c[1][2] = config.target_regions[1]
                /\ a \notin Delegated => cs = {}
                /\ a \in Delegated /\ tasks[a].state = "returned" => Cardinality(cs) = 1
                /\ a \in Delegated /\ pc \in {"export", "done"} => Cardinality(cs) = 1

\* two regions configured, and the global scanner has run for A, with the
\* first region, in a completed run
C6_Witness ==
    /\ Completed
    /\ Len(config.target_regions) = 2
    /\ "A" \in Delegated
    /\ Len(invocations[<<"A", "r1", "S3 Buckets">>]) = 1
    /\ Len(invocations[<<"A", "r2", "EC2 Instances">>]) = 1

\* R, G and the number of invocations per account for N regions
NumRegional == Cardinality({i \in 1..Len(Scanners) : ~Scanners[i].is_global})
NumGlobal   == Cardinality({i \in 1..Len(Scanners) : Scanners[i].is_global})

InvocationCounts(N) ==
    \A a \in OrgIds :
        Cardinality(InvocationsOf(a)) =
            IF a \in Ids(accounts) /\ a \in Delegated THEN NumRegional * N + NumGlobal ELSE 0

(***************************************************************************)
(* C7 as claimed: with N regions, R regional and G global scanners, in a   *)
(* completed run every allowed account whose delegation succeeded had      *)
(* exactly R*N + G scanner invocations, and every other account had none.  *)
(***************************************************************************)
C7_CrossProduct_AnyRegionCount ==
    Completed => InvocationCounts(Len(config.target_regions))

\* the units of an account in the cross product
ExpectedUnits(account_id) ==
    {u \in Units :
        /\ u[1] = account_id
        /\ IF ScannerOf(u[3]).is_global
           THEN u[2] = config.target_regions[1]
           ELSE u[2] \in Range(config.target_regions)}

(***************************************************************************)
(* C7 as amended: the same for N >= 1 regions.  The invocations of such an *)
(* account are then one per regional scanner and region and one per global *)
(* scanner with the first region.  With accounts A, B, C, 2 regions and    *)
(* B's delegation refused: 6 invocations in total, accounts_scanned = 2,   *)
(* and exactly 1 failure entry when no invocation failed.                  *)
(***************************************************************************)
C7_CrossProduct ==
    (Completed /\ Len(config.target_regions) >= 1) =>
        /\ InvocationCounts(Len(config.target_regions))
        /\ \A a \in Ids(accounts) \cap Delegated :
                InvocationsOf(a) = ExpectedUnits(a) \X {1}
        /\ ( /\ Ids(accounts) = {"A", "B", "C"}
             /\ Len(config.target_regions) = 2
             /\ Refused = {"B"} )
           => /\ Cardinality(Invocations) = 6
              /\ report.accounts_scanned = 2
              /\ FailedInvocations = {} => Len(report.errors) = 1

\* the run of the example: A, B, C allowed, 2 regions, B refused, no
\* invocation failed
C7_Witness ==
    /\ Completed
    /\ Ids(accounts) = {"A", "B", "C"}
    /\ Len(config.target_regions) = 2
    /\ Refused = {"B"}
    /\ FailedInvocations = {}
    /\ Cardinality(Invocations) = 6
    /\ Len(report.errors) = 1

\* the calls of a scanner that returned no error
SuccessfulInvocations(name) ==
    {c \in Invocations : c[1][3] = name /\ Returned(c)[2] = None}

(***************************************************************************)
(* C8: merge count.  In a completed run, for every scanner the records     *)
(* merged are as many as the successful invocations of that scanner        *)
(* returned in total, and they are those records, each once.               *)
(***************************************************************************)
C8_MergeCount ==
    Completed =>
        \A name \in SheetNames :
            /\ name \in DOMAIN report.results
            /\ Len(report.results[name].resources) = CountReturned(SuccessfulInvocations(name))
            /\ SeqToBag(report.results[name].resources) = BagOfReturned(SuccessfulInvocations(name))

\* a completed run that merged three accounts, with records and a failed
\* invocation among them
C8_Witness ==
    /\ Completed
    /\ report.accounts_scanned = 3
    /\ FailedInvocations # {}
    /\ Len(report.results["EC2 Instances"].resources) > 5
    /\ Len(report.results["S3 Buckets"].resources) > 0

(***************************************************************************)
(* ReportAfter(order) is the report the as_completed loop builds when the  *)
(* finished tasks arrive in `order`.                                       *)
(***************************************************************************)
\* the report as the submission loop leaves it
BeforeMerge ==
    [results |-> InitialResults,
     errors |-> EntriesOfKind(all_errors, "credentials"),
     accounts_scanned |-> 0]

RECURSIVE ReportAfterFrom(_, _)
ReportAfterFrom(rep, order) ==
    IF order = <<>> THEN rep
    ELSE ReportAfterFrom(
            MergeOutcome(rep, Head(order), AccountName(Head(order)), tasks[Head(order)]),
            Tail(order))

ReportAfter(order) == ReportAfterFrom(BeforeMerge, order)

\* the orders in which the tasks of S can arrive
ArrivalOrders(S) ==
    {order \in [1..Cardinality(S) -> S] :
        \A i, j \in 1..Cardinality(S) : i # j => order[i] # order[j]}

\* the submitted accounts in submission order
SubmissionOrder == SelectSeq([i \in 1..Len(accounts) |-> accounts[i][1]],
                             LAMBDA a : a \in Submitted)

C10_FailuresExactlyOnce ==
    Completed =>
        /\ \A a \in Refused :
                Count(report.errors, CredentialsError(a, AccountName(a))) = 1
        /\ \A c \in FailedInvocations : Count(report.errors, Returned(c)[2]) = 1
        /\ Len(EntriesOfKind(report.errors, "credentials")) = Cardinality(Refused)
        /\ Len(EntriesOfKind(report.errors, "unit")) = Cardinality(FailedInvocations)

\* a completed run with two refused accounts and a failed invocation
C10_Witness ==
    /\ Completed
    /\ Cardinality(Refused) = 2
    /\ Cardinality(FailedInvocations) = 1
    /\ Len(report.errors) = 3

\* the accounts with at least one scanner invocation that returned no error
AccountsWithSuccess ==
    {a \in OrgIds : \E c \in InvocationsOf(a) : Returned(c)[2] = None}

(***************************************************************************)
(* C11: accounts_scanned counts the accounts that had at least one         *)
(* successfully executed scanner invocation: it never exceeds their        *)
(* number, and in a completed run the report's accounts_scanned equals it. *)
(***************************************************************************)
C11_CountsAccountsWithSuccess ==
    /\ accounts_scanned <= Cardinality(AccountsWithSuccess)
    /\ Completed => report.accounts_scanned = Cardinality(AccountsWithSuccess)

\* the tasks inside a scan_account_region call: _scan_account makes its calls
\* one after the other, so a running task has at most one call in flight
InFlight == {a \in OrgIds : AtInvocation(a)}

(***************************************************************************)
(* C12: concurrency ceiling.  At every moment the tasks running in the     *)
(* pool, and so the scanner invocations in flight, are at most max_workers.*)
(***************************************************************************)
C12_ConcurrencyCeiling ==
    /\ Cardinality(Running) <= config.max_workers
    /\ Cardinality(InFlight) <= config.max_workers
    /\ InFlight \subseteq Running

\* two workers, both inside an invocation, while a third task waits in the queue
C12_Witness ==
    /\ config.max_workers = 2
    /\ Cardinality(InFlight) = 2
    /\ queue # <<>>

\* the credentials a scan_account_region call was given
CredentialsOf(c) == Returned(c)[3]

(***************************************************************************)
(* C13: causal ordering.  Whenever a scanner invocation for an account has *)
(* been made, the get_account_credentials call for that account had        *)
(* returned credentials before, and the invocation was given the           *)
(* credentials of the role in that account; a task exists only for an      *)
(* account whose credentials were obtained, and holds those credentials.   *)
(***************************************************************************)
C13_CausalOrdering ==
    /\ \A c \in Invocations :
            /\ c[1][1] \in Delegated
            /\ CredentialsOf(c) # None
            /\ CredentialsOf(c).role_in = c[1][1]
    /\ \A a \in Submitted :
            /\ a \in Delegated
            /\ tasks[a].credentials # None
            /\ tasks[a].credentials.role_in = a

\* the submission loop has not reached C yet while scanners have already
\* been invoked for A and for B
C13_Witness ==
    /\ pc = "submit"
    /\ cred_calls["C"] = <<>>
    /\ "C" \in Ids(accounts)
    /\ InvocationsOf("A") # {}
    /\ InvocationsOf("B") # {}

(***************************************************************************)
(* C14: get_account_credentials is called at most once for an account in a *)
(* run, and the credentials it returned are held by that account's task    *)
(* and by no other, and are given to the invocations of that task only.    *)
(***************************************************************************)
C14_DelegationOncePerAccount ==
    /\ \A a \in OrgIds : Len(cred_calls[a]) <= 1
    /\ \A a \in OrgIds : (tasks[a].credentials # None) <=> (a \in Delegated)
    /\ \A a, b \in Delegated : a # b => tasks[a].credentials # tasks[b].credentials
    /\ \A c \in Invocations : \A a \in Delegated :
            (CredentialsOf(c) = tasks[a].credentials) <=> (c[1][1] = a)

\* a completed run: one account refused, two delegated and scanned
C14_Witness ==
    /\ Completed
    /\ Cardinality(Refused) = 1
    /\ Cardinality(Delegated) = 2
    /\ \A a \in Delegated : InvocationsOf(a) # {}
    /\ \A a \in Ids(accounts) : Len(cred_calls[a]) = 1

(***************************************************************************)
(* Runs that last longer than the credentials.                             *)
(***************************************************************************)
\* DurationSeconds pass
Tick ==
    /\ now < MaxTicks * DurationSeconds
    /\ now' = now + DurationSeconds
    /\ UNCHANGED << config, org, scan, startup, instances, queue, tasks, invocations >>
    /\ UNCHANGED mainVars

\* the task's credentials have expired: _scan_account makes the call all the
\* same, AWS rejects the token and scan() raises ClientError (ExpiredToken)
InvokeExpired(a) ==
    /\ AtInvocation(a)
    /\ Expired(tasks[a].credentials)
    /\ Invoke(a, "ClientError")
    /\ UNCHANGED << config, now, org, scan, startup, queue >>
    /\ UNCHANGED mainVars

NextExpiry ==
    \/ Next
    \/ Tick
    \/ \E a \in OrgIds : InvokeExpired(a)

\* runs of one worker over at most two accounts and at most one region
InitExpiry ==
    InitWith([target_regions : {r \in RegionLists : Len(r) <= 1},
              max_workers : {1},
              account_blacklist : {{"B", "C"}, {"C", "D"}}])

SpecExpiry == InitExpiry /\ [][NextExpiry]_vars

\* the time of a scan_account_region call
TimeOf(c) == Returned(c)[4]

(***************************************************************************)
(* C15: no scanner invocation uses credentials whose expiry time has       *)
(* passed: every scan_account_region call is made before the expiry of the *)
(* credentials it is given.                                                *)
(***************************************************************************)
C15_NoExpiredCredentialsUsed ==
    \A c \in Invocations : TimeOf(c) < CredentialsOf(c).expires_at

\* sequence s is the beginning of sequence t
IsPrefix(s, t) == Len(s) <= Len(t) /\ SubSeq(t, 1, Len(s)) = s

\* a step writes self.results, self.all_errors or self.accounts_scanned
ReportWritten ==
    \/ results' # results
    \/ all_errors' # all_errors
    \/ accounts_scanned' # accounts_scanned

\* a step of a pool thread
PoolThreadStep == tasks' # tasks /\ queue' = queue

(***************************************************************************)
(* C16: mutual exclusion on the report under construction.  Every step     *)
(* that writes the per-scanner record lists, the failure list or           *)
(* accounts_scanned is a step of the main thread, inside scan_organization,*)
(* in which no pool thread moves; a step of a pool thread never writes     *)
(* them; and a write only appends: the failure list and each record list   *)
(* keep what they held, and accounts_scanned grows by at most one.         *)
(***************************************************************************)
C16_ReportWrittenByMainThreadOnly ==
    [][ /\ ReportWritten =>
            /\ pc \in {"filter", "submit", "collect"}
            /\ tasks' = tasks
            /\ queue' = queue
            /\ invocations' = invocations
            /\ IsPrefix(all_errors, all_errors')
            /\ accounts_scanned' \in {accounts_scanned, accounts_scanned + 1}
            /\ \A name \in DOMAIN results :
                    /\ name \in DOMAIN results'
                    /\ IsPrefix(results[name].resources, results'[name].resources)
        /\ PoolThreadStep => ~ReportWritten
      ]_vars

\* the main thread has merged a task and recorded a refusal while a pool
\* thread is still inside a task
C16_Witness ==
    /\ pc = "collect"
    /\ accounts_scanned >= 1
    /\ Refused # {}
    /\ Len(all_errors) >= 2
    /\ InFlight # {}

(***************************************************************************)
(* Runs the user interrupts.                                               *)
(***************************************************************************)
\* the user interrupts the scan: KeyboardInterrupt is raised in the main
\* thread, in the submission loop or in as_completed, and leaves the loop;
\* the executor's __exit__ waits for every submitted task, the queued ones
\* included, before the exception goes on to run()
Interrupt ==
    /\ pc \in {"submit", "collect"}
    /\ calls.interrupt = <<>>
    /\ calls' = [calls EXCEPT !.interrupt = Append(@, [at |-> pc, submitted |-> Submitted])]
    /\ pc' = "shutdown"
    /\ UNCHANGED << config, now, org, scan, startup, instances, exit_status, all_accounts, accounts, idx, queue, tasks,
                    collected, results, all_errors, accounts_scanned, progress,
                    report, cred_calls, invocations >>

NextInterrupt ==
    \/ Next
    \/ Interrupt

\* runs of one worker over at most two accounts and at most one region
InitInterrupt ==
    InitWith([target_regions : {r \in RegionLists : Len(r) <= 1},
              max_workers : {1},
              account_blacklist : {{"B", "C"}, {"C", "D"}}])

SpecInterrupt == InitInterrupt /\ [][NextInterrupt]_vars

Interrupted == calls.interrupt # <<>>

(***************************************************************************)
(* C17: cancellation.  Once the user has interrupted the scan no further   *)
(* task is submitted, and when the process has exited it has handed the    *)
(* report writer what had been aggregated so far and its status is not 0.  *)
(***************************************************************************)
C17_InterruptedRunReports ==
    Interrupted =>
        /\ Submitted = calls.interrupt[1].submitted
        /\ pc = "exited" =>
                /\ exit_status # ExitCode(0)
                /\ report # None
                /\ report.results = results
                /\ report.errors = all_errors
                /\ report.accounts_scanned = accounts_scanned

\* the report writer has been called
Handed == report # None

(***************************************************************************)
(* C18: finalization.  When the report writer has been called, the         *)
(* submission loop had ended, every submitted task had returned or raised  *)
(* and had been merged, and what the writer was given is what the record   *)
(* lists, the failure list and accounts_scanned hold; and from then on no  *)
(* step changes them.                                                      *)
(***************************************************************************)
C18_Finalization ==
    /\ [](Handed =>
            /\ idx > Len(accounts)
            /\ queue = <<>>
            /\ Submitted = Ids(accounts) \cap Delegated
            /\ Submitted \subseteq Terminal
            /\ collected = Submitted
            /\ report.results = results
            /\ report.errors = all_errors
            /\ report.accounts_scanned = accounts_scanned)
    /\ [][Handed => /\ ~ReportWritten
                    /\ report' = report
                    /\ tasks' = tasks]_vars

\* the writer was called after three tasks were merged, one failure recorded
C18_Witness ==
    /\ Handed
    /\ Cardinality(Submitted) = 3
    /\ collected = Submitted
    /\ Len(report.errors) = 1
    /\ report.accounts_scanned = 3

(***************************************************************************)
(* Runs whose target_regions may name a region twice.                      *)
(***************************************************************************)
\* load_config takes the list of regions as it is written
RepeatedRegionLists == { <<"r1", "r1">> }

InitRegions ==
    InitWith([target_regions : RegionLists \cup RepeatedRegionLists,
              max_workers : {MaxWorkers},
              account_blacklist : {{"B", "C"}, {"C", "D"}}])

SpecRegions == InitRegions /\ [][Next]_vars

\* the regions configured are pairwise distinct
DistinctRegions ==
    \A i, j \in 1..Len(config.target_regions) :
        i # j => config.target_regions[i] # config.target_regions[j]

\* how often _scan_account's loops reach the unit u
TimesReached(u) ==
    IF ScannerOf(u[3]).is_global
    THEN (IF config.target_regions # <<>> /\ u[2] = config.target_regions[1] THEN 1 ELSE 0)
    ELSE Count(config.target_regions, u[2])

(***************************************************************************)
(* C19 as claimed: no (account, region, scanner) triple is invoked more    *)
(* than once in a run.                                                     *)
(***************************************************************************)
C19_NoRetry_AnyRegionList ==
    \A u \in Units : Len(invocations[u]) <= 1

(***************************************************************************)
(* C19 as amended: a triple is invoked at most as often as the loops of    *)
(* _scan_account reach it, whether its invocations failed or succeeded:    *)
(* once for a global scanner, and for a regional scanner once per          *)
(* occurrence of the region in target_regions; so at most once when the    *)
(* configured regions are pairwise distinct.  A task that has returned has *)
(* made exactly these invocations.                                         *)
(***************************************************************************)
C19_NoRetry ==
    /\ \A u \in Units : Len(invocations[u]) <= TimesReached(u)
    /\ DistinctRegions => \A u \in Units : Len(invocations[u]) <= 1
    /\ \A u \in Units :
            tasks[u[1]].state = "returned" => Len(invocations[u]) = TimesReached(u)

\* a completed run over two distinct regions in which an invocation failed
\* and the task went on: every unit of A and B was invoked once
C19_Witness ==
    /\ Completed
    /\ DistinctRegions
    /\ Len(config.target_regions) = 2
    /\ Submitted = {"A", "B"}
    /\ Cardinality(FailedInvocations) = 1
    /\ \A u \in Units : u[1] \in Submitted => Len(invocations[u]) = TimesReached(u)

\* what scan() can do, as scan_account_region sees it
Answers == {"ok", "AccessDenied", "ClientError", "Exception"}

(***************************************************************************)
(* C20: invocation atomicity at the wrapper.  Whatever scan() does,        *)
(* scan_account_region returns either the complete list scan() returned    *)
(* and no error, or an empty list and an error message; every call made in *)
(* a run returned one or the other; and no task ever raised because of a   *)
(* scan_account_region call (a task raises only for want of a region).     *)
(***************************************************************************)
C20_InvocationAtomicity ==
    /\ \A i \in 1..Len(Scanners) : \A item \in Range(all_accounts) :
        \A region \in RegionNames : \A answer \in Answers :
            LET got == scan_account_region(Scanners[i], item[1], item[2], region, answer)
            IN  /\ answer = "ok" =>
                        /\ got[1] = ScanRecords(Scanners[i], item[1], item[2], region)
                        /\ got[2] = None
                /\ answer # "ok" =>
                        /\ got[1] = <<>>
                        /\ got[2] # None
                        /\ got[2].kind = "unit"
    /\ \A c \in Invocations :
            \/ /\ Returned(c)[2] = None
               /\ Returned(c)[1] = ScanRecords(ScannerOf(c[1][3]), c[1][1],
                                               AccountName(c[1][1]), c[1][2])
            \/ /\ Returned(c)[2] # None
               /\ Returned(c)[1] = <<>>
    /\ \A a \in OrgIds : tasks[a].state = "raised" =>
            /\ config.target_regions = <<>>
            /\ InvocationsOf(a) = {}

\* the regional scanner's call for (A, r1), where it would list 5 records,
\* failed and returned none of them; the global scanner's call succeeded
C20_Witness ==
    /\ Len(invocations[<<"A", "r1", "EC2 Instances">>]) = 1
    /\ invocations[<<"A", "r1", "EC2 Instances">>][1][2] # None
    /\ invocations[<<"A", "r1", "EC2 Instances">>][1][1] = <<>>
    /\ Len(invocations[<<"A", "r1", "S3 Buckets">>]) = 1
    /\ Len(invocations[<<"A", "r1", "S3 Buckets">>][1][1]) = 2
    /\ tasks["A"].state = "returned"

(***************************************************************************)
(* One call of scan_account_region, page by page.                          *)
(***************************************************************************)
\* two of the registered scanners, by what their scan() does when the listing
\* call fails: EC2InstanceScanner has no handler around its paginator loop,
\* TransitGatewayAttachmentScanner has `except Exception: pass` around it (as
\* have CloudFormationStackScanner, APIGatewayScanner, CloudFrontScanner)
ListingScanners ==
    { [resource_type |-> "EC2 Instance", sheet_name |-> "EC2 Instances",
       is_global |-> FALSE, swallows |-> FALSE],
      [resource_type |-> "TGW Attachment", sheet_name |-> "TGW Attachments",
       is_global |-> FALSE, swallows |-> TRUE] }

\* the listings: 1..MaxPages pages, given by the number of items on each
PageSizes == UNION {[1..n -> 0..MaxPageSize] : n \in 1..MaxPages}

\* the items of page k
PageItems(sizes, k) == [i \in 1..sizes[k] |-> [page |-> k, n |-> i]]

\* scan_account_region has been entered for a listing of which the request
\* for page fail_at fails (0: none does)
NewScan(sc, sizes, fail_at) ==
    [scanner |-> sc, sizes |-> sizes, fail_at |-> fail_at, page |-> 0,
     resources |-> <<>>, state |-> "listing", result |-> None]

\* scan_account_region around a scan() that ended ("returned", "raised")
\* with the list `listed`
scan_account_region_around(sc, account_id, account_name, region, ended, listed) ==
    IF ended = "returned"
    THEN << listed, None >>
    ELSE scan_account_region(sc, account_id, account_name, region, "ClientError")

\* the paginator yields the next page and scan() appends its items
ScanReadsPage ==
    /\ scan # None
    /\ scan.state = "listing"
    /\ scan.page < Len(scan.sizes)
    /\ scan.fail_at # scan.page + 1
    /\ scan' = [scan EXCEPT !.page = @ + 1,
                            !.resources = @ \o PageItems(scan.sizes, scan.page + 1)]
    /\ UNCHANGED << config, now, org, startup, instances, queue, tasks, invocations >>
    /\ UNCHANGED mainVars

\* the request for the next page fails: the exception leaves scan(), or the
\* handler around the loop passes and scan() returns what it has
ScanListingFails ==
    /\ scan # None
    /\ scan.state = "listing"
    /\ scan.fail_at = scan.page + 1
    /\ scan' = [scan EXCEPT !.state = IF scan.scanner.swallows THEN "returned" ELSE "raised"]
    /\ UNCHANGED << config, now, org, startup, instances, queue, tasks, invocations >>
    /\ UNCHANGED mainVars

\* the last page has been read: scan() returns resources
ScanReturns ==
    /\ scan # None
    /\ scan.state = "listing"
    /\ scan.page = Len(scan.sizes)
    /\ scan' = [scan EXCEPT !.state = "returned"]
    /\ UNCHANGED << config, now, org, startup, instances, queue, tasks, invocations >>
    /\ UNCHANGED mainVars

\* scan_account_region returns (resources, error)
WrapperReturns ==
    /\ scan # None
    /\ scan.state \in {"returned", "raised"}
    /\ scan' = [scan EXCEPT
                    !.state = "done",
                    !.result = scan_account_region_around(scan.scanner, "A", "Alpha", "r1",
                                                          scan.state, scan.resources)]
    /\ UNCHANGED << config, now, org, startup, instances, queue, tasks, invocations >>
    /\ UNCHANGED mainVars

NextScan ==
    \/ ScanReadsPage
    \/ ScanListingFails
    \/ ScanReturns
    \/ WrapperReturns

InitScan ==
    /\ InitRun([target_regions : {<<"r1">>}, max_workers : {1}, account_blacklist : {{}}])
    /\ org = OrgPages
    /\ startup = None
    /\ scan \in {NewScan(sc, sizes, fail_at) :
                    sc \in ListingScanners, sizes \in PageSizes, fail_at \in 0..MaxPages}
    /\ scan.fail_at <= Len(scan.sizes)

SpecScan == InitScan /\ [][NextScan]_vars

(***************************************************************************)
(* C21: a failure of a scanner's listing call, on the first page or on a   *)
(* later one, makes the whole invocation fail: scan_account_region then    *)
(* returns an error and no records, never a list without an error.         *)
(***************************************************************************)
C21_ListingFailureFailsInvocation ==
    (scan # None /\ scan.state = "done" /\ scan.fail_at # 0) =>
        /\ scan.result[2] # None
        /\ scan.result[1] = <<>>

(***************************************************************************)
(* list_accounts over any organization.                                    *)
(***************************************************************************)
\* the account statuses of organizations.list_accounts
Statuses == {"ACTIVE", "SUSPENDED", "PENDING_CLOSURE"}

OrgNames == [id \in {"A", "B", "C", "D"} |->
                CASE id = "A" -> "Alpha" [] id = "B" -> "Bravo"
                  [] id = "C" -> "Charlie" [] id = "D" -> "Delta"]

\* the accounts of `listed` that the paginator yields on page p, when account
\* i is on page cut[i]
PageOf(listed, cut, p) ==
    SelectSeq([i \in 1..Len(listed) |-> << listed[i], cut[i] >>],
              LAMBDA x : x[2] = p)

PagesOf(listed, cut) ==
    [p \in 1..MaxPages |->
        [i \in 1..Len(PageOf(listed, cut, p)) |-> PageOf(listed, cut, p)[i][1]]]

\* the organizations: up to MaxListed accounts with distinct ids, each with a
\* status, listed on MaxPages pages (some of them possibly empty)
Organizations ==
    UNION { { PagesOf([i \in 1..n |-> [Id |-> ids[i], Name |-> OrgNames[ids[i]],
                                        Status |-> st[i]]], cut) :
                ids \in {f \in [1..n -> DOMAIN OrgNames] :
                            \A i, j \in 1..n : f[i] = f[j] => i = j},
                st \in [1..n -> Statuses],
                cut \in {f \in [1..n -> 1..MaxPages] :
                            \A i, j \in 1..n : i <= j => f[i] <= f[j]} } :
            n \in 0..MaxListed }

InitListing ==
    /\ InitRun([target_regions : {<<"r1">>}, max_workers : {1}, account_blacklist : {{"B"}}])
    /\ org \in Organizations
    /\ scan = None
    /\ startup = None

NextListing ==
    \/ VerifyOk
    \/ VerifyFail
    \/ ListAccountsOk
    \/ ListAccountsRaises
    \/ FilterAndInit

SpecListing == InitListing /\ [][NextListing]_vars

\* list_accounts() has returned
Listed == calls.list = << "ok" >>

\* the accounts the organization lists as ACTIVE
ActiveIn(pages) == {acc \in Range(Flatten(pages)) : acc.Status = "ACTIVE"}

(***************************************************************************)
(* C22: list_accounts returns exactly the ACTIVE accounts of all the pages *)
(* of the organization listing, each mapped to its name: one entry per     *)
(* ACTIVE account, none for an account of any other status.                *)
(***************************************************************************)
C22_ListsActiveAccounts ==
    Listed =>
        /\ Ids(all_accounts) = {acc.Id : acc \in ActiveIn(org)}
        /\ Len(all_accounts) = Cardinality(Ids(all_accounts))
        /\ \A acc \in ActiveIn(org) :
                all_accounts[NameOf(all_accounts, acc.Id)][2] = acc.Name

C22_Witness ==
    /\ Listed
    /\ \E acc \in Range(org[2]) : acc.Status = "ACTIVE"
    /\ \E acc \in Range(org[1]) : acc.Status = "SUSPENDED"
    /\ all_accounts = << << "C", "Charlie" >> >>

(***************************************************************************)
(* load_config: the Config a run is started with.                          *)
(***************************************************************************)
\* d.get(k, default) of a dict (os.environ, the parsed JSON object)
Get(d, k, default) == IF k \in DOMAIN d THEN d[k] ELSE default

Restrict(d, keys) == [k \in keys |-> d[k]]

\* Config(): the defaults of the dataclass (fields that the scan reads)
DefaultConfig ==
    [target_regions |-> << "us-east-1", "us-west-2" >>, max_workers |-> 20,
     account_blacklist |-> {}]

\* int() of the MAX_WORKERS strings
ToInt == [str \in {"1", "2", "20"} |->
            CASE str = "1" -> 1 [] str = "2" -> 2 [] str = "20" -> 20]

\* the environments: any of the variables may be unset; a comma-separated
\* value is given by its fields, so that split(',') yields them ('' has the
\* one field '')
Environments ==
    { Restrict(full, keys) :
        full \in [AWS_INVENTORY_CI : {"", "true"},
                  TARGET_REGIONS : { << "r1" >>, << "r1", "r2" >> },
                  MAX_WORKERS : {"1", "2"},
                  ACCOUNT_BLACKLIST : { << "" >>, << "B", "C" >> }],
        keys \in SUBSET {"AWS_INVENTORY_CI", "TARGET_REGIONS", "MAX_WORKERS",
                         "ACCOUNT_BLACKLIST"} }

\* the file at config_path: missing, not JSON, or a JSON object with any of
\* the keys
ConfigFiles ==
    { [state |-> "missing", data |-> <<>>], [state |-> "invalid", data |-> <<>>] }
    \cup
    { [state |-> "json", data |-> Restrict(full, keys)] :
        full \in [target_regions : { <<>>, << "r1" >>, << "r1", "r2" >> },
                  max_workers : {1, 2},
                  account_blacklist : { <<>>, << "B", "C" >>, << "B", "B" >> }],
        keys \in SUBSET {"target_regions", "max_workers", "account_blacklist"} }

\* load_config(config_path): the Config it returns, or SystemExit
load_config(environ, file) ==
    IF Get(environ, "AWS_INVENTORY_CI", "") # ""
    THEN [kind |-> "Config",
          config |->
            [target_regions |-> Get(environ, "TARGET_REGIONS", << "us-east-1", "us-west-2" >>),
             max_workers |-> ToInt[Get(environ, "MAX_WORKERS", "20")],
             account_blacklist |->
                IF Get(environ, "ACCOUNT_BLACKLIST", << "" >>) # << "" >>
                THEN Range(environ["ACCOUNT_BLACKLIST"]) ELSE {}]]
    ELSE IF file.state = "json"
    THEN [kind |-> "Config",
          config |->
            [target_regions |-> Get(file.data, "target_regions", << "us-east-1", "us-west-2" >>),
             max_workers |-> Get(file.data, "max_workers", 20),
             account_blacklist |-> Range(Get(file.data, "account_blacklist", <<>>))]]
    ELSE IF file.state = "missing"
    THEN [kind |-> "Config", config |-> DefaultConfig]
    ELSE [kind |-> "SystemExit", code |-> 1]

\* main() calls load_config
LoadConfig ==
    /\ startup # None
    /\ startup.state = "called"
    /\ startup' = [startup EXCEPT !.state = "done",
                                  !.outcome = load_config(startup.environ, startup.file)]
    /\ UNCHANGED << config, now, org, scan, instances, queue, tasks, invocations >>
    /\ UNCHANGED mainVars

NextConfig == LoadConfig

InitConfig ==
    /\ InitRun([target_regions : {<<"r1">>}, max_workers : {1}, account_blacklist : {{}}])
    /\ org = OrgPages
    /\ scan = None
    /\ startup \in [environ : Environments, file : ConfigFiles, state : {"called"},
                     outcome : {None}]

SpecConfig == InitConfig /\ [][NextConfig]_vars

(***************************************************************************)
(* C23: load_config called with the path of a configuration file that     *)
(* does not exist (and without AWS_INVENTORY_CI in the environment)        *)
(* terminates with SystemExit instead of returning a Config.               *)
(***************************************************************************)
C23_MissingFileExits ==
    ( /\ startup # None
      /\ startup.state = "done"
      /\ startup.file.state = "missing"
      /\ Get(startup.environ, "AWS_INVENTORY_CI", "") = "" ) =>
        startup.outcome.kind = "SystemExit"

\* scan_organization has returned normally
ScanComplete == pc \in {"export", "done"}

\* the accounts whose task's outcome was merged by the try branch of the
\* as_completed loop
Counted == {a \in collected : tasks[a].state = "returned"}

\* the account-level failure entries
AccountEntries(kind, a) == EntriesNaming(EntriesOfKind(all_errors, kind), a)

(***************************************************************************)
(* C24: accounting.  When scan_organization completes normally,            *)
(* accounts_scanned plus the number of 'Failed to get credentials' entries *)
(* plus the number of 'Unexpected error scanning' entries is the number of *)
(* allowed accounts; every allowed account is in exactly one of the three; *)
(* and the progress bar was advanced once per allowed account.             *)
(***************************************************************************)
C24_Accounting ==
    ScanComplete =>
        /\ accounts_scanned + Len(EntriesOfKind(all_errors, "credentials"))
                + Len(EntriesOfKind(all_errors, "unexpected")) = Len(accounts)
        /\ accounts_scanned = Cardinality(Counted)
        /\ \A a \in Ids(accounts) :
                (IF a \in Counted THEN 1 ELSE 0)
                    + Len(AccountEntries("credentials", a))
                    + Len(AccountEntries("unexpected", a)) = 1
        /\ \A e \in Range(all_errors) :
                e.kind \in {"credentials", "unexpected"} => e.account_id \in Ids(accounts)
        /\ progress = Len(accounts)

C24_Witness ==
    /\ ScanComplete
    /\ Len(accounts) = 3
    /\ accounts_scanned = 2
    /\ Len(EntriesOfKind(all_errors, "credentials")) = 1

C24_WitnessRaised ==
    /\ ScanComplete
    /\ Len(accounts) = 3
    /\ Len(EntriesOfKind(all_errors, "credentials")) = 1
    /\ Len(EntriesOfKind(all_errors, "unexpected")) = 2

(***************************************************************************)
(* Runs over the whole organization: no account is blacklisted, so that    *)
(* three account tasks share the pool and the scanner instances.           *)
(***************************************************************************)
InitPool ==
    InitWith([target_regions : RegionLists, max_workers : 1..MaxWorkers,
              account_blacklist : { {} }])

SpecPool == InitPool /\ [][Next]_vars

\* the scan_account_region calls of one _scan_account, as <<region, sheet
\* name>> in the order of its loops: the scanners in registry order, a regional
\* one over the configured regions in their order, a global one once
CallOrder(regions) ==
    IF regions = <<>> THEN <<>>
    ELSE Flatten([si \in 1..Len(Scanners) |->
            IF Scanners[si].is_global
            THEN << << regions[1], Scanners[si].sheet_name >> >>
            ELSE [ri \in 1..Len(regions) |-> << regions[ri], Scanners[si].sheet_name >>]])

\* the number of calls the task of account a has made
CallsMade(a) == Cardinality(InvocationsOf(a))

(***************************************************************************)
(* C25: the schedulable task is one account.  Within an account the        *)
(* scanner invocations are made strictly one after the other, in registry  *)
(* order of the scanners and configured order of the regions: at every     *)
(* moment the calls made for an account are the first k of that order,     *)
(* each made once, the call it is inside (at most one) is number k + 1,    *)
(* and only tasks of different accounts are inside calls at the same time. *)
(***************************************************************************)
C25_SequentialWithinAccount ==
    LET order == CallOrder(config.target_regions)
    IN  \A a \in OrgIds :
            LET k == CallsMade(a)
            IN  /\ k <= Len(order)
                /\ \A i \in 1..Len(order) :
                        Len(invocations[<< a, order[i][1], order[i][2] >>]) =
                            IF i <= k THEN 1 ELSE 0
                /\ \A u \in Units :
                        (u[1] = a /\ invocations[u] # <<>>) =>
                            \E i \in 1..k : order[i] = << u[2], u[3] >>
                /\ tasks[a].state \in {"none", "queued"} => k = 0
                /\ a \in InFlight =>
                        /\ k < Len(order)
                        /\ order[k + 1] = << InvocationRegion(a), Scanners[tasks[a].si].sheet_name >>
                /\ tasks[a].state = "returned" => k = Len(order)

\* two accounts' tasks are inside calls at the same time, one of them past
\* its first call
C25_Witness ==
    /\ {"A", "C"} \subseteq InFlight
    /\ Len(config.target_regions) = 2
    /\ CallsMade("A") = 2
    /\ CallsMade("C") = 1

\* what the call c returned belongs to the scanner, account and region of c
OwnOutcome(c) ==
    LET u   == c[1]
        got == Returned(c)
    IN  /\ \A rec \in Range(got[1]) :
                /\ rec.account_id = u[1]
                /\ rec.region = u[2]
                /\ rec.type = ScannerOf(u[3]).resource_type
        /\ got[2] # None =>
                /\ got[2].account_id = u[1]
                /\ got[2].region = u[2]
                /\ got[2].resource_type = ScannerOf(u[3]).resource_type
        /\ Len(got[1]) <= InventorySize(ScannerOf(u[3]), u[1], u[2])

(***************************************************************************)
(* C26: the scanner instances are shared by all account tasks, and         *)
(* scan_account_region neither reads nor writes their state: at every      *)
(* moment, under every interleaving of the tasks, self.resources and       *)
(* self.errors of every instance are as __init__ left them, and the        *)
(* records and the error a call returned are those of its own scanner,     *)
(* account and region only.                                                *)
(***************************************************************************)
C26_NoSharedScannerState ==
    /\ instances = NewInstances
    /\ \A c \in Invocations : OwnOutcome(c)

\* the tasks of two accounts run at the same time and both have called the
\* same scanner instance, which returned records to each
C26_Witness ==
    /\ {"A", "C"} \subseteq Running
    /\ \E ca \in InvocationsOf("A"), cc \in InvocationsOf("C") :
            /\ ca[1][3] = cc[1][3]
            /\ Returned(ca)[1] # <<>>
            /\ Returned(cc)[1] # <<>>

\* the position in the submission loop of the account whose
\* get_account_credentials call raised
EscapedAt == CHOOSE i \in 1..Len(accounts) : accounts[i][1] \in Escaped

Raised == {a \in OrgIds : tasks[a].state = "raised"}

\* an exception is raised in the body of _scan_account's loops, outside
\* scan_account_region's handlers (extend() of what a scan() returned raises
\* TypeError or MemoryError): it leaves _scan_account with what the task has
\* collected so far
TaskFails(a) ==
    /\ tasks[a].state = "running"
    /\ Cardinality(Raised) < MaxFaults
    /\ tasks' = [tasks EXCEPT ![a].state = "raised"]
    /\ UNCHANGED << config, now, org, scan, startup, instances, queue, invocations >>
    /\ UNCHANGED mainVars

NextTaskFailure ==
    \/ Next
    \/ \E a \in OrgIds : TaskFails(a)

InitTaskFailure ==
    InitWith([target_regions : { <<>>, << "r1", "r2" >> },
              max_workers : {1, MaxWorkers},
              account_blacklist : { {"C", "D"} }])

SpecTaskFailure == InitTaskFailure /\ [][NextTaskFailure]_vars

(***************************************************************************)
(* C28: an account task is merged all-or-nothing.  Once the main thread    *)
(* has handled a task that raised, none of the records and none of the     *)
(* unit errors the task had collected is in the results or the failure     *)
(* list, the list has exactly one 'Unexpected error scanning' entry for    *)
(* the account, the account is not counted in accounts_scanned; and when   *)
(* the scan completes every other task has been merged, whole.             *)
(***************************************************************************)
C28_AllOrNothing ==
    /\ \A a \in collected \cap Raised :
            /\ RecordsOf(a) = {}
            /\ EntriesNaming(EntriesOfKind(all_errors, "unit"), a) = <<>>
            /\ Len(AccountEntries("unexpected", a)) = 1
            /\ a \notin Counted
    /\ accounts_scanned = Cardinality(collected \ Raised)
    /\ ScanComplete =>
            \A b \in Submitted \ Raised :
                /\ b \in Counted
                /\ \A name \in DOMAIN tasks[b].resources_by_scanner :
                        \A rec \in Range(tasks[b].resources_by_scanner[name]) :
                            Count(results[name].resources, rec) = 1
                /\ \A e \in Range(tasks[b].errors) : Count(all_errors, e) = 1

\* a task raised after it had collected records and a unit error, and the
\* other account's task was merged
C28_Witness ==
    /\ ScanComplete
    /\ "A" \in Raised
    /\ CallsMade("A") = 2
    /\ tasks["A"].errors # <<>>
    /\ \E name \in DOMAIN tasks["A"].resources_by_scanner :
            tasks["A"].resources_by_scanner[name] # <<>>
    /\ "B" \in Counted

\* run() is over: it returned or called sys.exit
RunOver == pc \in {"done", "exited"}

(***************************************************************************)
(* C29: termination.  When verify_credentials and list_accounts succeeded  *)
(* and every get_account_credentials call and every scanner invocation     *)
(* returned or raised, the run does not end before every submitted task    *)
(* has reached a terminal state and has been merged exactly once, and      *)
(* before the report writer has been called.                               *)
(***************************************************************************)
C29_RunEndsAtReportWriter ==
    (RunOver /\ ~VerifyFailed /\ ~ListFailed) =>
        /\ Submitted \subseteq Terminal
        /\ collected = Submitted
        /\ progress = Len(accounts)
        /\ Handed

\* scan_organization is past the initialization of self.results
ResultsInitialized ==
    \/ pc \in {"executor", "submit", "collect", "export", "done", "shutdown"}
    \/ pc = "exited" /\ ~VerifyFailed /\ ~ListFailed

(***************************************************************************)
(* C30: the key set of the report.  The registered sheet names are         *)
(* pairwise distinct; from its initialization on, self.results has exactly *)
(* one entry per registered scanner, keyed by the scanner's sheet_name;    *)
(* the keys a task returns are keys of self.results, so the merge finds    *)
(* every key and adds or removes none; and the report handed to the writer *)
(* has an entry for every registered scanner, with or without records.     *)
(***************************************************************************)
C30_ReportKeySet ==
    /\ \A i, j \in 1..Len(Scanners) :
            Scanners[i].sheet_name = Scanners[j].sheet_name => i = j
    /\ ResultsInitialized =>
            /\ DOMAIN results = SheetNames
            /\ \A name \in SheetNames :
                    /\ results[name].sheet_name = name
                    /\ results[name].resource_type = ScannerOf(name).resource_type
    /\ \A a \in OrgIds : DOMAIN tasks[a].resources_by_scanner \subseteq SheetNames
    /\ Handed => DOMAIN report.results = SheetNames

\* a report in which one scanner has records and another has none
C30_Witness ==
    /\ Completed
    /\ report.accounts_scanned = 1
    /\ report.results["EC2 Instances"].resources # <<>>
    /\ report.results["S3 Buckets"].resources = <<>>

====
